---- MODULE Spec2Model ----
(***************************************************************************)
(* HCCB colour-barcode codec: the SVG encoder (hccbSvg.py) and the two     *)
(* readers (hccb_reader.py, hccb-opencv.py).                               *)
(*                                                                         *)
(* Three specifications share the variables:                               *)
(*   SpecGeom   generate_hccb seen through lengths and geometry            *)
(*   SpecCodec  payload bytes -> Reed-Solomon -> colours -> readers        *)
(*   SpecClass  the nearest-colour classifiers of the two readers          *)
(***************************************************************************)
EXTENDS Integers, Sequences, FiniteSets, TLC

VARIABLES pc, data_length, max_width, max_height, error_correction_level,
          spec, ecc_symbols, encoded_len, colored_len, grid, error,
          data, bits, encoded_data, colored_data, recognized, reader,
          unpacked, restored, sample, closest

vars == <<pc, data_length, max_width, max_height, error_correction_level,
          spec, ecc_symbols, encoded_len, colored_len, grid, error,
          data, bits, encoded_data, colored_data, recognized, reader,
          unpacked, restored, sample, closest>>

geomVars == <<data_length, max_width, max_height, error_correction_level,
              spec, ecc_symbols, encoded_len, colored_len, grid, error>>
codecVars == <<data, bits, encoded_data, colored_data, recognized,
               unpacked, restored>>
classVars == <<sample, closest>>

(***************************************************************************)
(* Bounds of the model.                                                    *)
(***************************************************************************)
\* largest payload length generate_hccb is given in SpecGeom
MaxLen == 180
\* significand width of the modelled binary floating point (Python: 53)
MantBits == 10
\* largest payload, in bytes, whose content is modelled in SpecCodec
MaxPayload == 2

Unused == <<>>

\* the decoding result before a reader has run
NotRestored == [status |-> "none", msg |-> <<>>]

(***************************************************************************)
(* Integer helpers.                                                        *)
(***************************************************************************)
RECURSIVE Pow2(_)
Pow2(k) == IF k <= 0 THEN 1 ELSE 2 * Pow2(k - 1)

RECURSIVE BitLen(_)
BitLen(n) == IF n = 0 THEN 0 ELSE 1 + BitLen(n \div 2)

CeilDiv(a, b) == (a + b - 1) \div b

Max(a, b) == IF a >= b THEN a ELSE b

RECURSIVE ISqrtFrom(_, _, _)
ISqrtFrom(n, bit, res) ==
    IF bit = 0 THEN res
    ELSE IF (res + bit) * (res + bit) <= n
         THEN ISqrtFrom(n, bit \div 2, res + bit)
         ELSE ISqrtFrom(n, bit \div 2, res)

ISqrt(n) == ISqrtFrom(n, Pow2(BitLen(n) \div 2 + 1), 0)

(***************************************************************************)
(* Binary floating point, round to nearest even, MantBits significand      *)
(* bits.  A value is [m, e] = m * 2^e with 2^(MantBits-1) <= m <           *)
(* 2^MantBits, or m = 0.  Only non-negative values occur in the encoder.   *)
(***************************************************************************)
FZero == [m |-> 0, e |-> 0]

\* n * 2^e rounded to MantBits bits
Round(n, e) ==
    IF n = 0 THEN FZero
    ELSE LET k == BitLen(n) - MantBits IN
         IF k <= 0 THEN [m |-> n * Pow2(-k), e |-> e + k]
         ELSE LET q == n \div Pow2(k)
                  r == n % Pow2(k)
                  h == Pow2(k - 1)
                  up == (r > h) \/ (r = h /\ q % 2 = 1)
                  q1 == IF up THEN q + 1 ELSE q
              IN IF q1 = Pow2(MantBits)
                 THEN [m |-> Pow2(MantBits - 1), e |-> e + k + 1]
                 ELSE [m |-> q1, e |-> e + k]

\* the float nearest to the rational n / d  (n >= 0, d > 0)
FromRat(n, d) ==
    IF n = 0 THEN FZero
    ELSE LET s == Max(0, MantBits + 2 + BitLen(d) - BitLen(n))
             q == (n * Pow2(s)) \div d
             sticky == IF (n * Pow2(s)) % d = 0 THEN 0 ELSE 1
         IN Round(2 * q + sticky, 0 - s - 1)

FromInt(n) == Round(n, 0)

FMul(a, b) == Round(a.m * b.m, a.e + b.e)

\* a / b for b > 0
FDiv(a, b) ==
    LET r == FromRat(a.m, b.m)
    IN IF r.m = 0 THEN FZero ELSE [m |-> r.m, e |-> r.e + a.e - b.e]

FAdd(a, b) ==
    IF a.m = 0 THEN b
    ELSE IF b.m = 0 THEN a
    ELSE LET hi == IF a.e >= b.e THEN a ELSE b
             lo == IF a.e >= b.e THEN b ELSE a
             d == hi.e - lo.e
         IN IF d > MantBits + 2 THEN hi
            ELSE Round(hi.m * Pow2(d) + lo.m, lo.e)

FSqrt(a) ==
    IF a.m = 0 THEN FZero
    ELSE LET s == IF (a.e - (MantBits + 4)) % 2 = 0
                  THEN MantBits + 4 ELSE MantBits + 5
             n == a.m * Pow2(s)
             r == ISqrt(n)
             sticky == IF r * r = n THEN 0 ELSE 1
         IN Round(2 * r + sticky, ((a.e - s) \div 2) - 1)

FLess(a, b) ==
    IF a.m = 0 THEN b.m > 0
    ELSE IF b.m = 0 THEN FALSE
    ELSE (a.e < b.e) \/ (a.e = b.e /\ a.m < b.m)

\* Python's min(a, b): b only when it is strictly smaller
FMin(a, b) == IF FLess(b, a) THEN b ELSE a

\* a <= b * (1 + 2^(5 - MantBits)), compared exactly: a does not exceed b
\* by more than thirty-two units of roundoff 2^-MantBits, the bound that
\* the roundings of two seven-term sums, two products and one quotient
\* can add up to
FLeqTol(a, b) ==
    IF a.m = 0 THEN TRUE
    ELSE IF b.m = 0 THEN FALSE
    ELSE LET t == Pow2(MantBits - 5)
             d == a.e - b.e
         IN IF d > 2 THEN FALSE
            ELSE IF d < -2 THEN TRUE
            ELSE IF d >= 0 THEN a.m * Pow2(d) * t <= b.m * (t + 1)
            ELSE a.m * t <= b.m * (t + 1) * Pow2(0 - d)

(***************************************************************************)
(* hccbSvg.py: palettes, geometry, specification calculator.               *)
(***************************************************************************)
FOUR_COLOR_MAP == <<"#000000", "#FFFF45", "#12FF0E", "#FF1400">>

EIGHT_COLOR_MAP == <<"#000000", "#FAFD28", "#1CEC12", "#DF0203",
                     "#FAFAFA", "#1EF6EE", "#F38BED", "#1833DE">>

Levels == {"L", "M", "Q", "H"}

\* the canvases (max_width, max_height) generate_hccb is called with
Canvas == {<<7, 2>>, <<5, 5>>, <<2, 9>>, <<500, 500>>}

Pad(l, r, t, b) == [left |-> l, right |-> r, top |-> t, bottom |-> b]

Dim(w, h) == [width |-> w, height |-> h]

ScalePad(p, f) == Pad(FMul(p.left, f), FMul(p.right, f),
                      FMul(p.top, f), FMul(p.bottom, f))

ScaleDim(d, f) == Dim(FMul(d.width, f), FMul(d.height, f))

base_spec ==
    [bits |-> 3,
     rows |-> 12,
     cols |-> 24,
     white_frame_pad |-> Pad(FromRat(2087, 100), FromRat(2087, 100),
                             FromRat(2087, 100), FromRat(2087, 100)),
     black_background_pad |-> Pad(FromRat(894, 100), FromRat(894, 100),
                                  FromRat(894, 100), FromRat(894, 100)),
     white_strip_height |-> FromRat(596, 100),
     row_inset |-> FromRat(596, 100),
     triangle_dim |-> Dim(FromRat(2548, 100), FromRat(2087, 100))]

triangle_row_dim(s) ==
    Dim(FDiv(FMul(s.triangle_dim.width, FromInt(s.cols)), FromInt(2)),
        FAdd(s.triangle_dim.height, s.white_strip_height))

\* the sums of barcode_dim, given row_dim = triangle_row_dim(s)
BarcodeDimOf(s, row_dim) ==
    Dim(FAdd(FAdd(FAdd(FAdd(FAdd(FAdd(
            s.white_frame_pad.left,
            s.black_background_pad.left),
            s.row_inset),
            row_dim.width),
            s.row_inset),
            s.black_background_pad.right),
            s.white_frame_pad.right),
        FAdd(FAdd(FAdd(
            s.white_frame_pad.top,
            s.black_background_pad.top),
            FMul(row_dim.height, FromInt(s.rows + 1))),
            s.white_frame_pad.bottom))

barcode_dim(s) == BarcodeDimOf(s, triangle_row_dim(s))

\* math.ceil(data_length * 8 / base_spec.bits)
required_triangles(len) == CeilDiv(len * 8, base_spec.bits)

\* the larger of the two scales instead of the smaller
final_scale_max(width_scale, height_scale) ==
    IF FLess(height_scale, width_scale) THEN width_scale ELSE height_scale

\* which of the two scales calculate_dynamic_spec applies last
final_scale(width_scale, height_scale) == FMin(width_scale, height_scale)

\* the Specification scaled by one factor in every linear dimension
ScaleSpec(s, f) ==
    [bits |-> s.bits,
     rows |-> s.rows,
     cols |-> s.cols,
     white_frame_pad |-> ScalePad(s.white_frame_pad, f),
     black_background_pad |-> ScalePad(s.black_background_pad, f),
     white_strip_height |-> FMul(s.white_strip_height, f),
     row_inset |-> FMul(s.row_inset, f),
     triangle_dim |-> ScaleDim(s.triangle_dim, f)]

\* rows = math.ceil(required_triangles / cols)
RowsFor(len) == CeilDiv(required_triangles(len), base_spec.cols)

\* lines 220-235: the base template resized to `rows` rows and scaled by
\* sqrt(rows / base rows)
SizedSpec(rows) ==
    ScaleSpec([base_spec EXCEPT !.rows = rows],
              FSqrt(FromRat(rows, base_spec.rows)))

\* lines 237-253: s, of total dimensions dims, scaled to the canvas; the
\* result is the Specification, or the exception the division raises
FitToCanvas(s, dims, maxw, maxh) ==
    IF dims.width.m = 0 \/ dims.height.m = 0
    THEN [raised |-> "ZeroDivisionError", spec |-> Unused]
    ELSE [raised |-> "none",
          spec |-> ScaleSpec(s, final_scale(
                                   FDiv(FromInt(maxw), dims.width),
                                   FDiv(FromInt(maxh), dims.height)))]

FitSpec(s, maxw, maxh) == FitToCanvas(s, barcode_dim(s), maxw, maxh)

calculate_dynamic_spec(len, maxw, maxh) ==
    FitSpec(SizedSpec(RowsFor(len)), maxw, maxh)

\* the table with the divisor of level L used for level M too
ecc_symbols_for_m5(level, len) ==
    [L |-> Max(7, len \div 5),
     M |-> Max(10, len \div 5),
     Q |-> Max(13, len \div 3),
     H |-> Max(17, len \div 2)][level]

\* the ecc_symbols table of barcode()
ecc_symbols_for(level, len) ==
    [L |-> Max(7, len \div 5),
     M |-> Max(10, len \div 4),
     Q |-> Max(13, len \div 3),
     H |-> Max(17, len \div 2)][level]

\* len(RSCodec(nsym).encode(data)): the codec splits data into blocks of
\* 255 - nsym bytes and appends nsym parity bytes to every block
apply_reed_solomon_len(len, nsym) ==
    len + nsym * CeilDiv(len, 255 - nsym)

colors_prefix(b) ==
    LET colors == IF b = 2 THEN FOUR_COLOR_MAP ELSE EIGHT_COLOR_MAP
    IN colors \o colors

\* len(data_to_colors(bits, data)) for len(data) = len
data_to_colors_len(b, len) == len * (8 \div b)

\* draw_triangles: the triangle of data row i, column j is drawn in row
\* slot rows - i - 1 (counted from the top of the inner rectangle) and takes
\* data[i * cols + j]; slot `rows` is the extra row barcode_dim and
\* draw_strips reserve.  -1: no triangle drawn there.
draw_triangles(s, len) ==
    IF s.rows * s.cols > len
    THEN [raised |-> "IndexError", grid |-> Unused]
    ELSE [raised |-> "none",
          grid |-> [slot \in 0..s.rows |->
                      [j \in 0..(s.cols - 1) |->
                          IF slot < s.rows
                          THEN (s.rows - slot - 1) * s.cols + j
                          ELSE -1]]]

(***************************************************************************)
(* SpecGeom: generate_hccb(data, width, height, level) through lengths.    *)
(***************************************************************************)
InitGeom ==
    /\ pc = "start"
    /\ data_length \in 0..MaxLen
    /\ \E c \in Canvas : max_width = c[1] /\ max_height = c[2]
    /\ error_correction_level \in Levels
    /\ spec = Unused
    /\ ecc_symbols = 0
    /\ encoded_len = 0
    /\ colored_len = 0
    /\ grid = Unused
    /\ error = "none"
    /\ data = Unused /\ bits = 0 /\ encoded_data = Unused
    /\ colored_data = Unused /\ recognized = Unused /\ reader = "none"
    /\ unpacked = Unused /\ restored = NotRestored
    /\ sample = Unused /\ closest = -1

\* generate_hccb line 312
CalculateDynamicSpec ==
    /\ pc = "start"
    /\ LET r == calculate_dynamic_spec(data_length, max_width, max_height)
       IN /\ spec' = r.spec
          /\ error' = r.raised
          /\ pc' = IF r.raised = "none" THEN "spec_ready" ELSE "raised"
    /\ UNCHANGED <<data_length, max_width, max_height,
                   error_correction_level, ecc_symbols, encoded_len,
                   colored_len, grid>>
    /\ UNCHANGED <<codecVars, classVars, reader>>

\* generate_hccb line 315: barcode(spec, width, height, data, level)
Barcode ==
    /\ pc = "spec_ready"
    /\ LET nsym == ecc_symbols_for(error_correction_level, data_length)
           elen == apply_reed_solomon_len(data_length, nsym)
           clen == Len(colors_prefix(spec.bits))
                     + data_to_colors_len(spec.bits, elen)
           r == draw_triangles(spec, clen)
       IN /\ ecc_symbols' = nsym
          /\ encoded_len' = elen
          /\ colored_len' = clen
          /\ grid' = r.grid
          /\ error' = r.raised
          /\ pc' = IF r.raised = "none" THEN "drawn" ELSE "raised"
    /\ UNCHANGED <<data_length, max_width, max_height,
                   error_correction_level, spec>>
    /\ UNCHANGED <<codecVars, classVars, reader>>

NextGeom == CalculateDynamicSpec \/ Barcode

SpecGeom == InitGeom /\ [][NextGeom]_vars

(***************************************************************************)
(* Properties of SpecGeom.                                                 *)
(***************************************************************************)
\* barcode() was entered: it drew the grid or failed while drawing
BarcodeRan == pc = "drawn" \/ (pc = "raised" /\ error = "IndexError")

SpecComputed == pc \in {"spec_ready", "drawn"} \/ BarcodeRan

ClaimedDim(s) ==
    Dim(FAdd(FAdd(FAdd(FAdd(FAdd(
            s.white_frame_pad.left, s.white_frame_pad.right),
            s.black_background_pad.left), s.black_background_pad.right),
            FMul(FromInt(2), s.row_inset)),
            FDiv(FMul(s.triangle_dim.width, FromInt(s.cols)), FromInt(2))),
        FAdd(FAdd(FAdd(FAdd(
            s.white_frame_pad.top, s.white_frame_pad.bottom),
            s.black_background_pad.top), s.black_background_pad.bottom),
            FMul(FromInt(s.rows + 1),
                 FAdd(s.triangle_dim.height, s.white_strip_height))))

FClose(a, b) == FLeqTol(a, b) /\ FLeqTol(b, a)

\* C6: barcode_dim returns width = left + right frame pad + left + right
\* background pad + 2*rowInset + triangleWidth*cols/2 and height = top +
\* bottom frame pad + top + bottom background pad + (rows+1) *
\* (triangleHeight + stripHeight), up to rounding.
C6_TotalDimensionFormula ==
    SpecComputed =>
        /\ FClose(barcode_dim(spec).width, ClaimedDim(spec).width)
        /\ FClose(barcode_dim(spec).height, ClaimedDim(spec).height)

\* C7: a payload of length 0 is rejected with GeometryError and with no
\* other error, whatever the canvas.
C7_ZeroLengthGeometryError ==
    (data_length = 0 /\ pc # "start") =>
        (pc = "raised" /\ error = "GeometryError")

ClaimedEcc(level, len) ==
    CASE level = "L" -> Max(7, len \div 5)
      [] level = "M" -> Max(10, len \div 4)
      [] level = "Q" -> Max(13, len \div 3)
      [] level = "H" -> Max(17, len \div 2)

\* C8 as stated: for every payload length and level, barcode() uses the
\* parity count max(7, len/5) | max(10, len/4) | max(13, len/3) |
\* max(17, len/2) and the framed message has length len + that count.
C8_EccLevelMapping ==
    BarcodeRan =>
        /\ ecc_symbols = ClaimedEcc(error_correction_level, data_length)
        /\ encoded_len = data_length + ecc_symbols

\* C8 amended: the parity count is as stated for every length and level,
\* and the framed message has length len + count whenever len >= 1 and
\* len + count <= 255, that is, when the message is one Reed-Solomon block.
C8_EccLevelMappingOneBlock ==
    BarcodeRan =>
        /\ ecc_symbols = ClaimedEcc(error_correction_level, data_length)
        /\ (data_length >= 1 /\ data_length + ecc_symbols <= 255
              => encoded_len = data_length + ecc_symbols)

\* barcode() framed a one-block payload long enough for the proportional
\* part of level H to exceed its floor
C8_Witness ==
    /\ BarcodeRan
    /\ error_correction_level = "H"
    /\ ecc_symbols > 17
    /\ data_length + ecc_symbols <= 255
    /\ encoded_len = data_length + ecc_symbols

\* C10: every index i*cols + j that draw_triangles reads is smaller than
\* the length of the colour sequence barcode() builds.
C10_NoIndexPastEnd ==
    BarcodeRan =>
        \A i \in 0..(spec.rows - 1) : \A j \in 0..(spec.cols - 1) :
            i * spec.cols + j < colored_len

\* C5: one extra header row holds the palette twice in sequence and no
\* payload or parity symbol; no data row holds a synchronization symbol.
C5_SyncRowReserved ==
    pc = "drawn" =>
        LET plen == Len(colors_prefix(spec.bits))
        IN \E h \in 0..spec.rows :
              /\ \A j \in 0..(plen - 1) : grid[h][j] = j
              /\ \A j \in 0..(spec.cols - 1) : grid[h][j] < plen
              /\ \A s \in (0..spec.rows) \ {h} : \A j \in 0..(spec.cols - 1) :
                    grid[s][j] \notin 0..(plen - 1)

(***************************************************************************)
(* Reed-Solomon over GF(2^8) as the reedsolo codec computes it with its    *)
(* defaults: primitive polynomial 0x11d, generator 2, first root 2^0,      *)
(* block size 255.                                                         *)
(***************************************************************************)
RECURSIVE Xor(_, _)
Xor(a, b) ==
    IF a = 0 THEN b
    ELSE IF b = 0 THEN a
    ELSE 2 * Xor(a \div 2, b \div 2) + ((a + b) % 2)

\* multiplication without tables: shift and add, reduced by 0x11d
RECURSIVE gf_mult_noLUT(_, _)
gf_mult_noLUT(x, y) ==
    IF y = 0 THEN 0
    ELSE LET x2 == IF 2 * x >= 256 THEN Xor(2 * x, 285) ELSE 2 * x
         IN Xor(IF y % 2 = 1 THEN x ELSE 0, gf_mult_noLUT(x2, y \div 2))

RECURSIVE GFPow2(_)
GFPow2(i) ==
    IF i = 0 THEN 1
    ELSE LET h == GFPow2(i \div 2)
             sq == gf_mult_noLUT(h, h)
         IN IF i % 2 = 1 THEN gf_mult_noLUT(sq, 2) ELSE sq

\* gf_exp[i + 1] = 2^i in the field
gf_exp == [k \in 1..255 |-> GFPow2(k - 1)]

\* gf_log[v] = i with 2^i = v
gf_log == [v \in 1..255 |-> CHOOSE i \in 0..254 : gf_exp[i + 1] = v]

gf_mul(x, y) ==
    IF x = 0 \/ y = 0 THEN 0
    ELSE gf_exp[((gf_log[x] + gf_log[y]) % 255) + 1]

\* p(x) * (X + root) for p given with its highest coefficient first
GFPolyMulRoot(p, root) ==
    [k \in 1..(Len(p) + 1) |->
        Xor(IF k <= Len(p) THEN p[k] ELSE 0,
            IF k >= 2 THEN gf_mul(p[k - 1], root) ELSE 0)]

RECURSIVE rs_generator_poly(_)
rs_generator_poly(nsym) ==
    IF nsym = 0 THEN <<1>>
    ELSE GFPolyMulRoot(rs_generator_poly(nsym - 1), gf_exp[nsym])

RECURSIVE RSDivide(_, _, _, _)
RSDivide(work, i, n, gen) ==
    IF i > n THEN work
    ELSE LET coef == work[i]
         IN IF coef = 0 THEN RSDivide(work, i + 1, n, gen)
            ELSE RSDivide(
                   [k \in 1..Len(work) |->
                      IF k > i /\ k < i + Len(gen)
                      THEN Xor(work[k], gf_mul(gen[k - i + 1], coef))
                      ELSE work[k]],
                   i + 1, n, gen)

\* one block: the message followed by nsym parity bytes
rs_encode_msg(msg, nsym) ==
    LET gen == rs_generator_poly(nsym)
        work == RSDivide(msg \o [k \in 1..nsym |-> 0], 1, Len(msg), gen)
    IN msg \o SubSeq(work, Len(msg) + 1, Len(msg) + nsym)

RECURSIVE apply_reed_solomon(_, _)
apply_reed_solomon(msg, nsym) ==
    LET chunk == 255 - nsym
    IN IF Len(msg) = 0 THEN <<>>
       ELSE IF Len(msg) <= chunk THEN rs_encode_msg(msg, nsym)
       ELSE rs_encode_msg(SubSeq(msg, 1, chunk), nsym)
              \o apply_reed_solomon(SubSeq(msg, chunk + 1, Len(msg)), nsym)

\* the exclusive or of the terms lo..hi of a sequence
RECURSIVE XorRange(_, _, _)
XorRange(terms, lo, hi) ==
    IF lo > hi THEN 0
    ELSE IF lo = hi THEN terms[lo]
    ELSE LET mid == (lo + hi) \div 2
         IN Xor(XorRange(terms, lo, mid), XorRange(terms, mid + 1, hi))

\* the polynomial poly (highest coefficient first) at the point 2^j
gf_poly_eval(poly, j) ==
    LET n == Len(poly)
        terms == [k \in 1..n |->
                    gf_mul(poly[k], gf_exp[((j * (n - k)) % 255) + 1])]
    IN XorRange(terms, 1, n)

\* all nsym syndromes of the received word vanish
SyndromesZero(word, nsym) ==
    \A j \in 0..(nsym - 1) : gf_poly_eval(word, j) = 0

Hamming(a, b) == Cardinality({k \in 1..Len(a) : a[k] # b[k]})

DropParity(word, nsym) ==
    IF Len(word) > nsym THEN SubSeq(word, 1, Len(word) - nsym) ELSE <<>>

\* RSCodec(nsym).decode(word) for one block, when `sent` was transmitted:
\* a word with vanishing syndromes is returned without its last nsym
\* bytes; a word within nsym/2 byte errors of a codeword is corrected to
\* it; any other word raises ReedSolomonError or is corrected to some
\* codeword other than `sent`.
rs_decode(word, nsym, sent) ==
    IF SyndromesZero(word, nsym)
    THEN {[status |-> "returned", msg |-> DropParity(word, nsym)]}
    ELSE IF /\ Len(word) = Len(sent)
            /\ Hamming(word, sent) <= nsym \div 2
            /\ SyndromesZero(sent, nsym)
    THEN {[status |-> "returned", msg |-> DropParity(sent, nsym)]}
    ELSE {[status |-> "ReedSolomonError", msg |-> <<>>],
          [status |-> "other_codeword", msg |-> <<>>]}

(***************************************************************************)
(* Bit-colour packing: hccbSvg.data_to_colors, hccb_reader.restore_data,   *)
(* hccb-opencv.decode_colors.                                              *)
(***************************************************************************)
\* the payload bytes whose content SpecCodec explores
ByteVals == {0, 72, 73, 192, 255}

\* the concatenation of the sequences ss[lo..hi]
RECURSIVE FlattenRange(_, _, _)
FlattenRange(ss, lo, hi) ==
    IF lo > hi THEN <<>>
    ELSE IF lo = hi THEN ss[lo]
    ELSE LET mid == (lo + hi) \div 2
         IN FlattenRange(ss, lo, mid) \o FlattenRange(ss, mid + 1, hi)

Flatten(ss) == FlattenRange(ss, 1, Len(ss))

\* the colours of one byte
ByteToColors(b, value) ==
    LET color_map == IF b = 2 THEN FOUR_COLOR_MAP ELSE EIGHT_COLOR_MAP
        mask == IF b = 2 THEN 3 ELSE 7
        shift == IF b = 2 THEN 2 ELSE 3
    IN [i \in 1..(8 \div b) |->
          color_map[((value \div Pow2((i - 1) * shift)) % (mask + 1)) + 1]]

data_to_colors(b, values) ==
    Flatten([k \in 1..Len(values) |-> ByteToColors(b, values[k])])

\* list.index: the zero-based position of the first occurrence
IndexOf(seq, x) == (CHOOSE k \in 1..Len(seq) :
                       seq[k] = x /\ \A l \in 1..(k - 1) : seq[l] # x) - 1

\* the names of hccb-opencv's COLOR_MAP, in insertion order
COLOR_LIST == <<"BLACK", "YELLOW", "GREEN", "RED",
                "WHITE", "CYAN", "PINK", "BLUE">>

\* the bits of n as a binary string of at least w digits (f"{n:0wb}")
RECURSIVE BinDigits(_, _)
BinDigits(n, w) ==
    IF n = 0 /\ w <= 0 THEN <<>>
    ELSE Append(BinDigits(n \div 2, w - 1), n % 2)

RECURSIVE BitsToInt(_)
BitsToInt(bs) ==
    IF Len(bs) = 0 THEN 0
    ELSE 2 * BitsToInt(SubSeq(bs, 1, Len(bs) - 1)) + bs[Len(bs)]

ColorBits(color) ==
    IF color \in {"BLACK", "YELLOW", "GREEN", "RED"}
    THEN BinDigits(IndexOf(COLOR_LIST, color), 2)
    ELSE BinDigits(IndexOf(COLOR_LIST, color), 3)

\* decode_colors on the colour names of the grid in row-major order
decode_colors(colors) ==
    LET bs == Flatten([k \in 1..Len(colors) |-> ColorBits(colors[k])])
        n == CeilDiv(Len(bs), 8)
    IN [k \in 1..n |->
          BitsToInt(SubSeq(bs, 8 * (k - 1) + 1,
                           IF 8 * k <= Len(bs) THEN 8 * k ELSE Len(bs)))]

\* the loop of restore_data: one byte per symbol
restore_data_bytes(symbols, b) ==
    LET mask == IF b = 2 THEN 3 ELSE 7
        shift == IF b = 2 THEN 2 ELSE 3
    IN [k \in 1..Len(symbols) |-> (symbols[k] % (mask + 1)) * Pow2(shift)]

RECURSIVE SeqsUpTo(_, _)
SeqsUpTo(S, n) ==
    IF n = 0 THEN {<<>>}
    ELSE LET shorter == SeqsUpTo(S, n - 1)
         IN shorter \cup {Append(q, x) : q \in shorter, x \in S}

(***************************************************************************)
(* SpecCodec: barcode() on payload bytes, then either reader.              *)
(***************************************************************************)
InitCodec ==
    /\ pc = "start"
    /\ data \in SeqsUpTo(ByteVals, MaxPayload) \ {<<>>}
    /\ bits \in {2, 3}
    /\ error_correction_level \in Levels
    /\ ecc_symbols = 0
    /\ encoded_data = Unused
    /\ colored_data = Unused
    /\ recognized = Unused
    /\ reader = "none"
    /\ unpacked = Unused
    /\ restored = NotRestored
    /\ error = "none"
    /\ data_length = 0 /\ max_width = 0 /\ max_height = 0
    /\ spec = Unused /\ encoded_len = 0 /\ colored_len = 0
    /\ grid = Unused
    /\ sample = Unused /\ closest = -1

\* barcode() lines 258-266 and 297
Encode ==
    /\ pc = "start"
    /\ LET nsym == ecc_symbols_for(error_correction_level, Len(data))
           enc == apply_reed_solomon(data, nsym)
       IN /\ ecc_symbols' = nsym
          /\ encoded_data' = enc
          /\ colored_data' = colors_prefix(bits) \o data_to_colors(bits, enc)
    /\ pc' = "encoded"
    /\ UNCHANGED <<data, bits, error_correction_level, recognized, reader,
                   unpacked, restored, error>>
    /\ UNCHANGED <<data_length, max_width, max_height, spec, encoded_len,
                   colored_len, grid, classVars>>

\* every colour read back as the index of exactly that palette entry, the
\* synchronization prefix left out
Recognize ==
    /\ pc = "encoded"
    /\ LET color_map == IF bits = 3 THEN EIGHT_COLOR_MAP ELSE FOUR_COLOR_MAP
           plen == Len(colors_prefix(bits))
           body == SubSeq(colored_data, plen + 1, Len(colored_data))
       IN recognized' = [k \in 1..Len(body) |-> IndexOf(color_map, body[k])]
    /\ pc' = "recognized"
    /\ UNCHANGED <<data, bits, error_correction_level, ecc_symbols,
                   encoded_data, colored_data, reader, unpacked, restored,
                   error>>
    /\ UNCHANGED <<data_length, max_width, max_height, spec, encoded_len,
                   colored_len, grid, classVars>>

\* hccb_reader.restore_data(recognized, bits, nsym); nsym is the caller's:
\* the encoder's count, or the default 68
RestoreData ==
    /\ pc = "recognized"
    /\ \E nsym \in {ecc_symbols, 68} :
         LET bytes == restore_data_bytes(recognized, bits)
         IN /\ unpacked' = bytes
            /\ \E r \in rs_decode(bytes, nsym, encoded_data) :
                 /\ restored' = r
                 /\ error' = IF r.status = "ReedSolomonError"
                             THEN "ValueError" ELSE "none"
    /\ reader' = "hccb_reader"
    /\ pc' = "decoded"
    /\ UNCHANGED <<data, bits, error_correction_level, ecc_symbols,
                   encoded_data, colored_data, recognized>>
    /\ UNCHANGED <<data_length, max_width, max_height, spec, encoded_len,
                   colored_len, grid, classVars>>

\* hccb-opencv.read_hccb lines 160-170: decode_colors on the colour names,
\* then RSCodec(nsym).decode; nsym is 68 unless adjusted to the encoder's
ReadHccb ==
    /\ pc = "recognized"
    /\ \E nsym \in {ecc_symbols, 68} :
         LET names == [k \in 1..Len(recognized) |->
                          COLOR_LIST[recognized[k] + 1]]
             bytes == decode_colors(names)
         IN /\ unpacked' = bytes
            /\ \E r \in rs_decode(bytes, nsym, encoded_data) :
                 /\ restored' = r
                 /\ error' = IF r.status = "ReedSolomonError"
                             THEN "ReedSolomonError" ELSE "none"
    /\ reader' = "hccb_opencv"
    /\ pc' = "decoded"
    /\ UNCHANGED <<data, bits, error_correction_level, ecc_symbols,
                   encoded_data, colored_data, recognized>>
    /\ UNCHANGED <<data_length, max_width, max_height, spec, encoded_len,
                   colored_len, grid, classVars>>

NextCodec == Encode \/ Recognize \/ RestoreData \/ ReadHccb

SpecCodec == InitCodec /\ [][NextCodec]_vars

(***************************************************************************)
(* Properties of SpecCodec.                                                *)
(***************************************************************************)
\* C1: decoding the symbols of encode(p), synchronization symbols stripped
\* and every symbol classified without error, returns exactly p, for both
\* bit depths.
C1_RoundTrip ==
    pc = "decoded" => (restored.status = "returned" /\ restored.msg = data)

\* the symbol indices of one byte, most significant group first, in
\* ceil(8/bits) groups
PackMSB(b, value) ==
    [i \in 1..CeilDiv(8, b) |->
        LET low == 8 - b * i
        IN IF low >= 0 THEN (value \div Pow2(low)) % Pow2(b)
           ELSE (value * Pow2(0 - low)) % Pow2(b)]

\* C3: data_to_colors emits ceil(8/bits) symbol indices per byte, most
\* significant bit group first, which together carry all 8 bits.
C3_PackMsbFirst ==
    pc = "recognized" =>
        recognized = Flatten([k \in 1..Len(encoded_data) |->
                                 PackMSB(bits, encoded_data[k])])

\* the decoding C4 states: every symbol bits wide, regrouped by 8, the
\* incomplete last group dropped
UnpackFixed(b, symbols) ==
    LET bs == Flatten([k \in 1..Len(symbols) |-> BinDigits(symbols[k], b)])
    IN [k \in 1..(Len(bs) \div 8) |->
          BitsToInt(SubSeq(bs, 8 * (k - 1) + 1, 8 * k))]

\* C4: decoding writes each symbol as a bits-wide string, concatenates,
\* regroups into bytes and drops a short final group: floor(totalBits/8)
\* bytes come out.
C4_UnpackFixedWidth ==
    pc = "decoded" =>
        /\ Len(unpacked) = (bits * Len(recognized)) \div 8
        /\ unpacked = UnpackFixed(bits, recognized)

(***************************************************************************)
(* Colour classification: hccb_reader.recognize_hccb and                   *)
(* hccb-opencv.classify_color.                                             *)
(***************************************************************************)
READER_FOUR_COLOR_MAP ==
    <<<<0, 0, 0>>, <<255, 255, 69>>, <<18, 255, 14>>, <<255, 20, 0>>>>

READER_EIGHT_COLOR_MAP ==
    <<<<0, 0, 0>>, <<250, 253, 40>>, <<28, 236, 18>>, <<223, 2, 3>>,
      <<250, 250, 250>>, <<30, 246, 238>>, <<243, 139, 237>>,
      <<24, 51, 222>>>>

\* the values of hccb-opencv's COLOR_MAP in the order of COLOR_LIST
COLOR_MAP ==
    <<<<0, 0, 0>>, <<0, 255, 255>>, <<0, 255, 0>>, <<0, 0, 255>>,
      <<255, 255, 255>>, <<255, 255, 0>>, <<203, 192, 255>>,
      <<255, 0, 0>>>>

SeqRange(seq) == {seq[k] : k \in 1..Len(seq)}

\* the measured colours handed to the classifiers: every palette entry, a
\* coarse lattice, and points on the bisector of two palette entries
Samples ==
    SeqRange(READER_FOUR_COLOR_MAP) \cup SeqRange(READER_EIGHT_COLOR_MAP)
      \cup SeqRange(COLOR_MAP)
      \cup {<<r, g, b>> : r \in {0, 128, 255}, g \in {0, 128, 255},
                          b \in {0, 128, 255}}
      \cup {<<109, 113, 160>>, <<0, 116, 57>>, <<4, 158, 132>>,
            <<79, 151, 128>>}

\* the square of the Euclidean distance; the square root the readers take
\* preserves its order and its ties
Dist2(c, d) ==
    (c[1] - d[1]) * (c[1] - d[1]) + (c[2] - d[2]) * (c[2] - d[2])
      + (c[3] - d[3]) * (c[3] - d[3])

\* Python's min(seq, key): the running best is replaced only by a
\* strictly smaller key
RECURSIVE PyMinFrom(_, _, _)
PyMinFrom(keys, k, best) ==
    IF k > Len(keys) THEN best
    ELSE PyMinFrom(keys, k + 1, IF keys[k] < keys[best] THEN k ELSE best)

\* min() replacing the running best on an equal key as well
RECURSIVE PyMinLastFrom(_, _, _)
PyMinLastFrom(keys, k, best) ==
    IF k > Len(keys) THEN best
    ELSE PyMinLastFrom(keys, k + 1,
                       IF keys[k] <= keys[best] THEN k ELSE best)

PyMinLast(keys) == PyMinLastFrom(keys, 2, 1)

PyMin(keys) == PyMinFrom(keys, 2, 1)

\* recognize_hccb lines 54 and 67-70, for one averaged colour
recognize_hccb(color, b) ==
    LET color_map == IF b = 3 THEN READER_EIGHT_COLOR_MAP
                     ELSE READER_FOUR_COLOR_MAP
        keys == [k \in 1..Len(color_map) |-> Dist2(color_map[k], color)]
        closest_color == color_map[PyMin(keys)]
    IN IndexOf(color_map, closest_color)

\* classify_color: the name of the nearest entry of COLOR_MAP
classify_color(color) ==
    LET distances == [k \in 1..Len(COLOR_MAP) |-> Dist2(color, COLOR_MAP[k])]
    IN COLOR_LIST[PyMin(distances)]

(***************************************************************************)
(* SpecClass: one sample through either classifier.                        *)
(***************************************************************************)
InitClass ==
    /\ pc = "start"
    /\ sample \in Samples
    /\ bits \in {2, 3}
    /\ closest = -1
    /\ reader = "none"
    /\ error = "none"
    /\ data_length = 0 /\ max_width = 0 /\ max_height = 0
    /\ error_correction_level = "M"
    /\ spec = Unused /\ ecc_symbols = 0 /\ encoded_len = 0
    /\ colored_len = 0 /\ grid = Unused
    /\ data = Unused /\ encoded_data = Unused /\ colored_data = Unused
    /\ recognized = Unused /\ unpacked = Unused /\ restored = NotRestored

RecognizeHccb ==
    /\ pc = "start"
    /\ closest' = recognize_hccb(sample, bits)
    /\ reader' = "hccb_reader"
    /\ pc' = "classified"
    /\ UNCHANGED <<sample, bits, error, geomVars>>
    /\ UNCHANGED <<data, encoded_data, colored_data, recognized, unpacked,
                   restored>>

ClassifyColor ==
    /\ pc = "start"
    /\ closest' = IndexOf(COLOR_LIST, classify_color(sample))
    /\ reader' = "hccb_opencv"
    /\ pc' = "classified"
    /\ UNCHANGED <<sample, bits, error, geomVars>>
    /\ UNCHANGED <<data, encoded_data, colored_data, recognized, unpacked,
                   restored>>

NextClass == RecognizeHccb \/ ClassifyColor

SpecClass == InitClass /\ [][NextClass]_vars

(***************************************************************************)
(* Properties of SpecClass.                                                *)
(***************************************************************************)
\* the palette the classifier that ran compares against
PaletteUsed ==
    IF reader = "hccb_opencv" THEN COLOR_MAP
    ELSE IF bits = 3 THEN READER_EIGHT_COLOR_MAP ELSE READER_FOUR_COLOR_MAP

\* C9: a sample equal to palette entry i classifies as i, at distance zero;
\* among several nearest entries the lowest index is returned; for the
\* 4-colour and the 8-colour palettes.
C9_ClassifierDeterminism ==
    pc = "classified" =>
        LET pal == PaletteUsed
            d(i) == Dist2(sample, pal[i + 1])
            idx == 0..(Len(pal) - 1)
        IN /\ closest \in idx
           /\ \A i \in idx : d(closest) <= d(i)
           /\ \A i \in idx : d(i) = d(closest) => closest <= i
           /\ \A i \in idx : sample = pal[i + 1] =>
                                 (closest = i /\ d(closest) = 0)

\* a sample equidistant from its two nearest entries of the 4-colour
\* palette has been classified
C9_Witness ==
    /\ pc = "classified"
    /\ reader = "hccb_reader"
    /\ bits = 2
    /\ \E i \in 1..4 : \E j \in 1..4 :
          /\ i # j
          /\ Dist2(sample, READER_FOUR_COLOR_MAP[i])
               = Dist2(sample, READER_FOUR_COLOR_MAP[j])
          /\ \A k \in 1..4 : Dist2(sample, READER_FOUR_COLOR_MAP[i])
                               <= Dist2(sample, READER_FOUR_COLOR_MAP[k])

====
